---- MODULE Spec2Model ----
(***************************************************************************)
(* Raster preparation (prepifg) of PyRate: the per-raster task that masks  *)
(* a raster by coherence, block-averages it and updates its DATA_TYPE      *)
(* metadata.  Three implementations live in the repository and all three   *)
(* are modelled, selected by the variable impl:                            *)
(*   "legacy"  pyrate/prepifg.py            warp/_resample_ifg/resample    *)
(*   "warp"    pyrate/prepifg/utilities.py  prepare_ifg/_warp/_dummy_warp  *)
(*   "mp"      pyrate/prepifg/__init__.py   _prepifg_multiprocessing       *)
(*                                                                         *)
(* Floating point values are exact rationals <<s, n>> (s/n, n > 0); the    *)
(* pair <<0, 0>> is NaN.  Thresholds are rationals over 100.               *)
(*                                                                         *)
(* Six specifications share the variables:                                 *)
(*   Spec       one prepare call on one raster                             *)
(*   SpecRerun  prepare_ifg called again on the file it wrote              *)
(*   SpecBatch  the extents of a batch: prepare_ifgs and get_extents of    *)
(*              pyrate/prepifg.py, the older prepare_ifgs of               *)
(*              src/pyrate/prepifg.py, and main with the validation of     *)
(*              the configuration that precedes it                         *)
(*   SpecPath   the name of the output file: output_tiff_filename and      *)
(*              mlooked_path                                               *)
(*   SpecAlign  _alignment on the averaged array                           *)
(*   SpecPool   the tasks of main in multiprocessing.Pool.map              *)
(***************************************************************************)
EXTENDS Integers, FiniteSets, Sequences, TLC

\* ------------------------------------------------------------------ bounds
Rows == 2          \* raster height in pixels
Cols == 2          \* raster width in pixels
MaxVal == 2        \* pixel values in the source file are 0..MaxVal
MaxRuns == 2       \* prepare calls in a row on one raster
MaxBatch == 2      \* rasters in a batch
MaxSide == 3       \* rows, and columns, of a raster given to _alignment
MaxJobs == 5       \* files in the list given to the pool

\* ------------------------------------------------------- values and floats
NaN == <<0, 0>>
Val(v) == <<v, 1>>
IsNaN(x) == x[2] = 0
IsZero(x) == x[2] # 0 /\ x[1] = 0
\* a < b and a = b on non-NaN rationals; any comparison with NaN is false
Lt(a, b) == ~IsNaN(a) /\ ~IsNaN(b) /\ a[1] * b[2] < b[1] * a[2]
Eq(a, b) == ~IsNaN(a) /\ ~IsNaN(b) /\ a[1] * b[2] = b[1] * a[2]
Ge(a, b) == ~IsNaN(a) /\ ~IsNaN(b) /\ a[1] * b[2] >= b[1] * a[2]
\* two array cells hold the same value (NaN matches NaN)
Same(a, b) == (IsNaN(a) /\ IsNaN(b)) \/ Eq(a, b)

Pix == (1..Rows) \X (1..Cols)
Blank == [p \in {} |-> NaN]
\* value stored in a valid (non-zero) pixel of the source file
PixVal(p) == 1 + ((p[1] * Cols + p[2]) % MaxVal)

RECURSIVE SumOver(_, _)
SumOver(S, f) ==
    IF S = {} THEN 0
    ELSE LET p == CHOOSE q \in S : TRUE IN f[p][1] + SumOver(S \ {p}, f)

\* ------------------------------------------------------ program constants
ORIG == "ORIGINAL_IFG"
MULTILOOKED == "MULTILOOKED_IFG"
COHERENCE == "COHERENCE_MASKED_MULTILOOKED_IFG"
DEM == "ORIGINAL_DEM"
MLOOKED_DEM == "MLOOKED_DEM"
INCIDENCE == "ORIGINAL_INCIDENCE"
MLOOKED_INC == "MLOOKED_INC"
MINIMUM_CROP == 1
ALREADY_SAME_SIZE == 4

NoTag == "(no DATA_TYPE)"       \* the metadata has no DATA_TYPE item
OtherTag == "UNKNOWN_TYPE"      \* a DATA_TYPE value outside the seven stages
NoPath == "None"                \* coherence_path is None
CohPath == "coh.tif"
NoThresh == <<>>                \* coherence_thresh is None; <<t>> is t/100
NoHeader == "None"              \* header is None
None == <<>>                    \* a parameter that is None; <<v>> is v

VARIABLES
    impl,               \* which implementation runs the task
    pc, err,            \* position of the task and the exception raised
    xlooks, ylooks, crop_opt, thresh,
    data, tag, hdr,     \* source file: band 1, DATA_TYPE item; header arg
    coherence_path, coherence_thresh, coh,
    band1, band2,       \* src_ds_mem: band 1 (data), band 2 (nan_matrix)
    resampled_average, nan_frac,
    md,                 \* DATA_TYPE of the output metadata
    masking_ran,        \* coherence_masking has been called
    out_data, out_tag,  \* the written output file ("" when not written)
    run, history,       \* number of the prepare call; the calls before it
    opened,             \* the source raster has been opened
    \* ---- the batch: prepare_ifgs / get_extents / main
    resolver,           \* which entry point resolves the extents
    bpc, berr,          \* position in the entry point and exception raised
    ifgs,               \* the rasters of the batch, in the order supplied
    custom,             \* params IFG_XFIRST, IFG_XLAST, IFG_YFIRST, IFG_YLAST
    use_exceptions,     \* argument of the older prepare_ifgs
    extents,            \* xmin, ymin, xmax, ymax as computed
    grid_checked,       \* the grid alignment loop has been entered
    flagged,            \* parameters the grid alignment loop rejected
    n_out,              \* output rasters produced for the batch
    \* ---- the name of the output file
    raster_path,        \* the input path
    out_path,           \* argument out_path of prepare_ifg
    named,              \* the output paths of the calls so far
    ppc,                \* "start", or "error" when naming raised
    \* ---- the correction of the averaged array
    src_shape,          \* rows and columns of the source raster
    window,             \* rows and columns of the source inside the extent
    corrected,          \* resampled_average after _alignment
    apc,                \* "averaged", then "aligned"
    \* ---- the pool of main
    jobs,               \* the paths of list_of_files_to_process
    fails,              \* the tasks that raise
    nproc,              \* NO_OF_PARALLEL_PROCESSES
    tstate,             \* of a task: "queued", "done", "failed", "skipped"
    held,               \* of a worker: <<chunk, position>>, or <<>> when free
    next_chunk,         \* the next chunk of the task queue
    finished,           \* the chunks whose result has arrived
    files,              \* the output files: path :> the task that wrote it
    stored,             \* <<k>>: the exception of task k is kept by map
    mpc                 \* "start", "mapped", then "raised" or "closed"

batch == <<resolver, bpc, berr, ifgs, custom, use_exceptions, extents,
           grid_checked, flagged, n_out>>

naming == <<raster_path, out_path, named, ppc>>

aligning == <<src_shape, window, corrected, apc>>

pool == <<jobs, fails, nproc, tstate, held, next_chunk, finished, files, stored,
          mpc>>

vars == <<impl, pc, err, xlooks, ylooks, crop_opt, thresh, data, tag, hdr,
          coherence_path, coherence_thresh, coh, band1, band2,
          resampled_average, nan_frac, md, masking_ran,
          out_data, out_tag, run, history, opened, batch, naming, aligning, pool>>

\* what no step of a running task changes
inputs == <<impl, xlooks, ylooks, crop_opt, thresh, data, tag, hdr,
            coherence_path, coherence_thresh, coh, run, history, batch,
            naming, aligning, pool>>

\* ================================================================ helpers
\* numpy.round / int(): a / b rounded half to even (a >= 0, b > 0)
RoundHalfEven(a, b) ==
    LET q == a \div b
        r == a % b
    IN  IF 2 * r < b THEN q
        ELSE IF 2 * r > b THEN q + 1
        ELSE IF q % 2 = 0 THEN q ELSE q + 1

\* the source cells under output cell o when xs-by-ys cells make one cell
Footprint(o, xs, ys) ==
    {p \in Pix : /\ (o[1] - 1) * ys < p[1] /\ p[1] <= o[1] * ys
                 /\ (o[2] - 1) * xs < p[2] /\ p[2] <= o[2] * xs}

\* numpy.nanmean over the cells of a tile
nanmean(d, tile) ==
    LET valid == {p \in tile : ~IsNaN(d[p])}
    IN  IF valid = {} THEN NaN ELSE <<SumOver(valid, d), Cardinality(valid)>>

\* where(data == 0, nan, data): flag incoherent cells as NaNs
nan_convert(d) == [p \in Pix |-> IF d[p] = 0 THEN NaN ELSE Val(d[p])]

\* ReadAsArray of the file's band as floats
read_array(d) == [p \in Pix |-> Val(d[p])]

\* ========================================== legacy pyrate/prepifg.py
resample(d, xscale, yscale, t) ==
    LET xres == Cols \div xscale
        yres == Rows \div yscale
        tile_cell_count == xscale * yscale
    IN  [o \in (1..yres) \X (1..xres) |->
            LET tile == Footprint(o, xscale, yscale)
                nan_fraction ==
                    <<Cardinality({p \in tile : IsNaN(d[p])}), tile_cell_count>>
            IN  IF Lt(nan_fraction, t)
                   \/ (Eq(nan_fraction, Val(0)) /\ Eq(t, Val(0)))
                THEN nanmean(d, tile)
                ELSE NaN]

\* ====================================== pyrate/prepifg/__init__.py (GDAL)
\* size of the destination dataset for the raster's own extent
gdalwarp_width(xs) == RoundHalfEven(Cols, xs)
gdalwarp_height(ys) == RoundHalfEven(Rows, ys)
DstPix(xs, ys) == (1..gdalwarp_height(ys)) \X (1..gdalwarp_width(xs))

\* _setup_source: band 2 is the nan_matrix, 1 where the data is 0
nan_matrix(d) == [p \in Pix |-> d[p] = 0]

\* coherence_masking with an exclusive comparison, where(coh > t, src, ndv)
coherence_masking_exclusive(src, cohr, t) ==
    [p \in Pix |-> IF cohr[p] > t THEN src[p] ELSE NaN]

\* coherence_masking: where(coh >= t, src, ndv) with ndv = NaN
coherence_masking(src, cohr, t) ==
    [p \in Pix |-> IF cohr[p] >= t THEN src[p] ELSE NaN]

\* gdal.ReprojectImage(..., GRA_Average) of band 1, whose no-data value is 0.
\* A NaN among the contributing cells either propagates into the average or
\* is skipped, depending on the GDAL build (nanmode); a destination cell with
\* no contributing cell keeps the 0 the dataset was created with.
reproject_band1(b1, o, xs, ys, nanmode) ==
    LET cells == {p \in Footprint(o, xs, ys) : ~IsZero(b1[p])}
        nans == {p \in cells : IsNaN(b1[p])}
        used == cells \ nans
    IN  IF nans # {} /\ nanmode = "propagate" THEN NaN
        ELSE IF used = {} THEN Val(0)
        ELSE <<SumOver(used, b1), Cardinality(used)>>

\* the same of band 2: the fraction of cells flagged in the nan_matrix
reproject_band2(b2, o, xs, ys) ==
    LET cells == Footprint(o, xs, ys)
    IN  <<Cardinality({p \in cells : b2[p]}), Cardinality(cells)>>

gdal_nan_frac(b2, xs, ys) ==
    [o \in DstPix(xs, ys) |-> reproject_band2(b2, o, xs, ys)]

\* gdal_average: resampled_average[nan_frac >= thresh] = np.nan
gdal_average(b1, b2, xs, ys, t, nanmode) ==
    [o \in DstPix(xs, ys) |->
        IF Ge(reproject_band2(b2, o, xs, ys), t) THEN NaN
        ELSE reproject_band1(b1, o, xs, ys, nanmode)]

\* ================================= pyrate/prepifg/utilities.py (metadata)
TypeError == "TypeError"

\* collate_metadata(header)[DATA_TYPE]
collate_metadata(h) ==
    CASE h = "ifg" -> ORIG
      [] h = "inc" -> INCIDENCE
      [] OTHER -> DEM

\* Python truth value of coherence_path and of coherence_thresh
PathTruthy(path) == path # NoPath
ThreshTruthy(ct) == ct # NoThresh /\ ct[1] # 0

\* update_data_type that ignores the coherence path of an interferogram
update_data_type_no_coherence(v, path) ==
    CASE v = NoTag -> NoTag
      [] v = ORIG -> MULTILOOKED
      [] v = DEM -> MLOOKED_DEM
      [] v = INCIDENCE -> MLOOKED_INC
      [] v = COHERENCE /\ PathTruthy(path) -> v
      [] v = MULTILOOKED -> v
      [] OTHER -> TypeError

\* update_data_type that tags every raster as _dummy_warp does
update_data_type_all_ifg(v, path) ==
    CASE v = NoTag -> NoTag
      [] v = ORIG /\ PathTruthy(path) -> COHERENCE
      [] v = ORIG /\ ~PathTruthy(path) -> MULTILOOKED
      [] v = DEM -> MULTILOOKED
      [] v = INCIDENCE -> MULTILOOKED
      [] v = COHERENCE /\ PathTruthy(path) -> v
      [] v = MULTILOOKED /\ PathTruthy(path) -> COHERENCE
      [] v = MULTILOOKED /\ ~PathTruthy(path) -> v
      [] OTHER -> TypeError

\* update_data_type without the final else: an unmatched value is kept
update_data_type_no_else(v, path) ==
    CASE v = NoTag -> NoTag
      [] v = ORIG /\ PathTruthy(path) -> COHERENCE
      [] v = ORIG /\ ~PathTruthy(path) -> MULTILOOKED
      [] v = DEM -> MLOOKED_DEM
      [] v = INCIDENCE -> MLOOKED_INC
      [] v = COHERENCE /\ PathTruthy(path) -> v
      [] v = MULTILOOKED /\ PathTruthy(path) -> COHERENCE
      [] v = MULTILOOKED /\ ~PathTruthy(path) -> v
      [] OTHER -> v

\* _warp, lines 140-159: the DATA_TYPE written for an input DATA_TYPE v
update_data_type(v, path) ==
    CASE v = NoTag -> NoTag
      [] v = ORIG /\ PathTruthy(path) -> COHERENCE
      [] v = ORIG /\ ~PathTruthy(path) -> MULTILOOKED
      [] v = DEM -> MLOOKED_DEM
      [] v = INCIDENCE -> MLOOKED_INC
      [] v = COHERENCE /\ PathTruthy(path) -> v
      [] v = MULTILOOKED /\ PathTruthy(path) -> COHERENCE
      [] v = MULTILOOKED /\ ~PathTruthy(path) -> v
      [] OTHER -> TypeError

\* _warp, lines 110-118: what the task does with its coherence arguments
warp_coherence(path, ct) ==
    IF PathTruthy(path) /\ ThreshTruthy(ct) THEN "mask"
    ELSE IF PathTruthy(path) /\ ~ThreshTruthy(ct) THEN "no_thresh"
    ELSE "skip"

\* _prepifg_multiprocessing, lines 173-181
mp_coherence(path, ct) ==
    IF path # NoPath /\ ct # NoThresh THEN "mask"
    ELSE IF path # NoPath THEN "no_thresh"
    ELSE IF ct # NoThresh THEN "no_path"
    ELSE "skip"

do_multilook == xlooks > 1 \/ ylooks > 1

\* ================================================================== inputs
LookSet == {1, 2}
Thresholds == {<<0, 100>>, <<25, 100>>, <<50, 100>>, <<100, 100>>}
Stages == {ORIG, MULTILOOKED, COHERENCE, DEM, MLOOKED_DEM, INCIDENCE, MLOOKED_INC}
Headers == {"ifg", "inc", "dem"}
\* a source file whose cells in Z are 0 (no data)
Raster(Z) == [p \in Pix |-> IF p \in Z THEN 0 ELSE PixVal(p)]
\* a coherence raster (percent) that is below 80 exactly on the cells of L
CohRaster(L) == [p \in Pix |-> IF p \in L THEN 79 ELSE 80]
LowSets == {L \in SUBSET Pix : Cardinality(L) <= 1} \cup {Pix}

Fresh ==
    /\ pc = "start" /\ err = ""
    /\ band1 = Blank /\ band2 = Blank
    /\ resampled_average = Blank /\ nan_frac = Blank
    /\ md = "" /\ masking_ran = FALSE
    /\ out_data = Blank /\ out_tag = ""
    /\ opened = FALSE

\* tasks on an interferogram that differ in their pixels
InitPixels ==
    /\ impl \in {"legacy", "warp", "mp"}
    /\ xlooks \in LookSet /\ ylooks \in LookSet
    /\ impl # "legacy" => xlooks = ylooks
    /\ crop_opt = MINIMUM_CROP
    /\ thresh \in Thresholds
    /\ \E Z \in SUBSET Pix : data = Raster(Z)
    /\ tag = ORIG /\ hdr = NoHeader
    /\ \/ /\ coherence_path = NoPath /\ coherence_thresh = NoThresh
          /\ coh = CohRaster({})
       \/ /\ impl # "legacy"
          /\ coherence_path = CohPath /\ coherence_thresh = <<80>>
          /\ \E L \in LowSets : coh = CohRaster(L)

\* tasks on one raster that differ in its metadata and in the configuration
InitStages ==
    /\ impl \in {"warp", "mp"}
    /\ xlooks \in LookSet /\ ylooks \in LookSet
    /\ crop_opt \in {MINIMUM_CROP, ALREADY_SAME_SIZE}
    /\ thresh = <<50, 100>>
    /\ data = Raster({<<1, 1>>})
    /\ tag \in Stages \cup {OtherTag, NoTag}
    /\ hdr \in (IF tag = NoTag /\ impl = "warp" THEN Headers \cup {NoHeader}
                ELSE {NoHeader})
    /\ coherence_path \in {NoPath, CohPath}
    /\ coherence_thresh \in {NoThresh, <<0>>, <<80>>}
    \* _prepifg_multiprocessing, lines 124-130: path and threshold are both
    \* taken from the parameters or both None
    /\ impl = "mp" /\ coherence_path = NoPath => coherence_thresh = NoThresh
    /\ coh = CohRaster({<<1, 2>>})

\* the first prepare call on the raster
FirstRun == run = 1 /\ history = <<>>

\* no batch is being resolved
NoBatch ==
    /\ resolver = "none" /\ bpc = "idle" /\ berr = ""
    /\ ifgs = <<>>
    /\ custom = [xfirst |-> None, xlast |-> None, yfirst |-> None, ylast |-> None]
    /\ use_exceptions = FALSE
    /\ extents = <<>> /\ grid_checked = FALSE /\ flagged = {} /\ n_out = 0

\* no output is being named
NoNaming ==
    /\ raster_path = <<>> /\ out_path = <<>> /\ named = <<>> /\ ppc = "idle"

\* no array is being corrected
NoAligning ==
    /\ src_shape = <<>> /\ window = <<>> /\ corrected = <<>> /\ apc = "idle"

\* no pool is running
NoPool ==
    /\ jobs = <<>> /\ fails = {} /\ nproc = 0 /\ tstate = <<>> /\ held = <<>>
    /\ next_chunk = 0 /\ finished = 0 /\ files = <<>> /\ stored = <<>>
    /\ mpc = "idle"

Init == Fresh /\ FirstRun /\ NoBatch /\ NoNaming /\ NoAligning /\ NoPool /\ (InitPixels \/ InitStages)

\* ================================================================= actions
Raise(e) == pc' = "error" /\ err' = e

\* legacy warp: resample when the resolution changes, else only flag the
\* incoherent cells; the result is written to the new layer
LegacyWarp ==
    /\ impl = "legacy" /\ pc = "start"
    /\ IF xlooks = 1 /\ ylooks = 1
       THEN /\ out_data' = nan_convert(data)
            /\ UNCHANGED resampled_average
       ELSE /\ resampled_average' = resample(nan_convert(data), xlooks, ylooks, thresh)
            /\ out_data' = resampled_average'
    /\ out_tag' = tag
    /\ pc' = "done"
    /\ UNCHANGED <<inputs, err, band1, band2, nan_frac, md, masking_ran>>
    /\ opened' = TRUE

\* prepare_ifg, lines 50-61: the file is copied and _dummy_warp tags the copy
DummyWarp ==
    /\ impl = "warp" /\ pc = "start"
    /\ ~do_multilook /\ crop_opt = ALREADY_SAME_SIZE
    /\ out_data' = read_array(data)
    /\ out_tag' = MULTILOOKED
    /\ pc' = "done"
    /\ UNCHANGED <<inputs, err, band1, band2, resampled_average, nan_frac, md,
                   masking_ran>>
    /\ opened' = TRUE

\* _warp up to _setup_source
WarpSetup ==
    /\ impl = "warp" /\ pc = "start"
    /\ ~(~do_multilook /\ crop_opt = ALREADY_SAME_SIZE)
    /\ IF xlooks # ylooks
       THEN Raise("looks") /\ UNCHANGED <<band1, band2>>
       ELSE /\ band1' = read_array(data)
            /\ band2' = nan_matrix(data)
            /\ pc' = "source" /\ UNCHANGED err
    /\ UNCHANGED <<inputs, resampled_average, nan_frac, md, masking_ran,
                   out_data, out_tag>>
    /\ opened' = TRUE

\* _prepifg_multiprocessing up to _setup_source.  raster is a gdal.Dataset,
\* which has no x_step: line 140 raises AttributeError when multilooking.
MpSetup ==
    /\ impl = "mp" /\ pc = "start"
    /\ IF do_multilook
       THEN Raise("attribute") /\ UNCHANGED <<band1, band2, out_data, out_tag>>
       ELSE /\ IF crop_opt = ALREADY_SAME_SIZE
               THEN out_data' = read_array(data) /\ out_tag' = tag
               ELSE UNCHANGED <<out_data, out_tag>>
            /\ IF xlooks # ylooks
               THEN Raise("looks") /\ UNCHANGED <<band1, band2>>
               ELSE /\ band1' = read_array(data)
                    /\ band2' = nan_matrix(data)
                    /\ pc' = "source" /\ UNCHANGED err
    /\ UNCHANGED <<inputs, resampled_average, nan_frac, md, masking_ran>>
    /\ opened' = TRUE

\* the coherence step of the task: mask, raise or skip
Coherence ==
    /\ pc = "source"
    /\ LET what == IF impl = "warp"
                   THEN warp_coherence(coherence_path, coherence_thresh)
                   ELSE mp_coherence(coherence_path, coherence_thresh)
       IN  CASE what = "mask" ->
                   /\ band1' = coherence_masking(band1, coh, coherence_thresh[1])
                   /\ masking_ran' = TRUE
                   /\ pc' = "masked" /\ UNCHANGED err
             [] what = "skip" ->
                   /\ pc' = "masked"
                   /\ UNCHANGED <<err, band1, masking_ran>>
             [] OTHER ->
                   /\ Raise(what)
                   /\ UNCHANGED <<band1, masking_ran>>
    /\ UNCHANGED <<inputs, band2, resampled_average, nan_frac, md,
                   out_data, out_tag>>
    /\ UNCHANGED opened

\* gdal_average
Average ==
    /\ pc = "masked"
    /\ \E nanmode \in {"propagate", "skip"} :
          resampled_average' =
              gdal_average(band1, band2, xlooks, ylooks, thresh, nanmode)
    /\ nan_frac' = gdal_nan_frac(band2, xlooks, ylooks)
    /\ pc' = "averaged"
    /\ UNCHANGED <<inputs, err, band1, band2, md, masking_ran, out_data, out_tag>>
    /\ UNCHANGED opened

\* the metadata of the output: _warp, lines 134-159, and
\* _prepifg_multiprocessing, line 195
Metadata ==
    /\ pc = "averaged"
    /\ LET md0 == IF tag = NoTag /\ hdr # NoHeader
                  THEN collate_metadata(hdr) ELSE tag
           new == IF impl = "warp"
                  THEN update_data_type(md0, coherence_path) ELSE md0
       IN  IF new = TypeError
           THEN Raise("data_type") /\ UNCHANGED md
           ELSE md' = new /\ pc' = "tagged" /\ UNCHANGED err
    /\ UNCHANGED <<inputs, band1, band2, resampled_average, nan_frac,
                   masking_ran, out_data, out_tag>>
    /\ UNCHANGED opened

\* gdal_dataset and write_geotiff
Write ==
    /\ pc = "tagged"
    /\ out_data' = resampled_average
    /\ out_tag' = md
    /\ pc' = "done"
    /\ UNCHANGED <<inputs, err, band1, band2, resampled_average, nan_frac, md,
                   masking_ran>>
    /\ UNCHANGED opened

Next ==
    \/ LegacyWarp
    \/ DummyWarp
    \/ WarpSetup
    \/ MpSetup
    \/ Coherence
    \/ Average
    \/ Metadata
    \/ Write

Spec == Init /\ [][Next]_vars

\* ------------------------------------------------ prepare called again
\* prepare_ifg is called on the file the call before it wrote.  The file's
\* DATA_TYPE is the tag written; its pixels do not enter the metadata step
\* and the raster of the model is kept for them.
Reprepare ==
    /\ impl = "warp" /\ pc = "done" /\ run < MaxRuns
    /\ run' = run + 1
    /\ history' = Append(history, [from |-> tag, stage |-> out_tag,
                                   path |-> coherence_path,
                                   ct |-> coherence_thresh])
    /\ tag' = out_tag
    /\ \E c \in {<<NoPath, NoThresh>>, <<CohPath, <<80>>>>,
                  <<coherence_path, coherence_thresh>>} :
          coherence_path' = c[1] /\ coherence_thresh' = c[2]
    /\ pc' = "start" /\ err' = ""
    /\ band1' = Blank /\ band2' = Blank
    /\ resampled_average' = Blank /\ nan_frac' = Blank
    /\ md' = "" /\ masking_ran' = FALSE
    /\ out_data' = Blank /\ out_tag' = ""
    /\ opened' = FALSE
    /\ UNCHANGED <<impl, xlooks, ylooks, crop_opt, thresh, data, hdr, coh, batch,
                   naming, aligning, pool>>

InitRerun ==
    Fresh /\ FirstRun /\ NoBatch /\ NoNaming /\ NoAligning /\ NoPool /\ InitStages /\ impl = "warp"

NextRerun ==
    \/ DummyWarp
    \/ WarpSetup
    \/ Coherence
    \/ Average
    \/ Metadata
    \/ Write
    \/ Reprepare

SpecRerun == InitRerun /\ [][NextRerun]_vars

\* ==================================================== the batch: extents
\* Map coordinates are whole numbers of GRID_TOL pixels of the finest grid,
\* so that a step times GRID_TOL is a whole number: GRID_TOL = 1 / GRID_TOL_INV
MAXIMUM_CROP == 2
CUSTOM_CROP == 3
GRID_TOL_INV == 1000000
CROP_OPTIONS_any == 0..5
CROP_OPTIONS == {MINIMUM_CROP, MAXIMUM_CROP, CUSTOM_CROP, ALREADY_SAME_SIZE}
NO_CROP == ALREADY_SAME_SIZE

CropError == "PreprocessError: Unrecognised crop option"
ResolutionError == "PreprocessError: Grid resolution does not match"
SameBoundsError == "PreprocessError: Ifgs do not have the same bounding box"
GridError == "PreprocessError: crop extent not within GRID_TOL of grid coordinate"
OldCropError == "PreprocessingException: Uncrecognised crop option"
OldGridError == "PreprocessingException: crop extent is not within GRID_TOL of the grid coords"
ConfigException == "ConfigException: invalid parameters"

Abs(x) == IF x < 0 THEN 0 - x ELSE x

\* an open Ifg: origin, step and size; y_step is negative (north up)
x_last(i) == i.x_first + i.ncols * i.x_step
y_last(i) == i.y_first + i.nrows * i.y_step
GetGeoTransform(i) == <<i.x_first, i.x_step, 0, i.y_first, 0, i.y_step>>

x_firsts(l) == [k \in DOMAIN l |-> l[k].x_first]
y_firsts(l) == [k \in DOMAIN l |-> l[k].y_first]
x_lasts(l) == [k \in DOMAIN l |-> x_last(l[k])]
y_lasts(l) == [k \in DOMAIN l |-> y_last(l[k])]

\* Python's max() and min() of a non-empty list
RECURSIVE max(_)
max(xs) ==
    IF Len(xs) = 1 THEN xs[1]
    ELSE LET m == max(Tail(xs)) IN IF xs[1] >= m THEN xs[1] ELSE m

RECURSIVE min(_)
min(xs) ==
    IF Len(xs) = 1 THEN xs[1]
    ELSE LET m == min(Tail(xs)) IN IF xs[1] <= m THEN xs[1] ELSE m

\* bounds are returned as xmin, ymin, xmax, ymax
min_bounds_of_first(l) ==
    <<l[1].x_first, y_last(l[1]), x_last(l[1]), l[1].y_first>>

min_bounds(l) ==
    <<max(x_firsts(l)), max(y_lasts(l)), min(x_lasts(l)), min(y_firsts(l))>>

max_bounds_of_first(l) ==
    <<l[1].x_first, y_last(l[1]), x_last(l[1]), l[1].y_first>>

max_bounds(l) ==
    <<min(x_firsts(l)), min(y_lasts(l)), max(x_lasts(l)), max(y_firsts(l))>>

\* check_resolution: every x_step and y_step equals the first
same_resolution(l) ==
    \A k \in DOMAIN l : l[k].x_step = l[1].x_step /\ l[k].y_step = l[1].y_step

\* get_same_bounds, lines 286-288
same_transform(l) ==
    \A k \in 2..Len(l) : GetGeoTransform(l[k]) = GetGeoTransform(l[1])

\* get_same_bounds, lines 292-299: i is the variable of the comprehension
\* of line 286, which Python 2 leaves bound to the last raster
get_same_bounds_half(l) ==
    LET i == l[Len(l)]
    IN  <<i.x_first, y_last(i), x_last(i) - (i.x_step \div 2), i.y_first>>

get_same_bounds(l) ==
    LET i == l[Len(l)]
        ymin == i.y_first
        ymax == y_last(i)
    IN  IF ymin > ymax THEN <<i.x_first, ymax, x_last(i), ymin>>
        ELSE <<i.x_first, ymin, x_last(i), ymax>>

Box4(t) == <<<<t[1]>>, <<t[2]>>, <<t[3]>>, <<t[4]>>>>

\* ---- check_crop_coords and the loop of the older prepare_ifgs
\* remainder = abs(modf(diff / step)[0]), as a number of GRID_TOL steps
remainder(crop, param, step) == Abs(crop - param) % Abs(step)

\* line 316 with the comparison dropped at the lower end (a variant)
off_grid_upper_only(crop, param, step) ==
    remainder(crop, param, step) < Abs(step) - (Abs(step) \div GRID_TOL_INV)

\* line 316: remainder > GRID_TOL and remainder < (1 - GRID_TOL)
off_grid(crop, param, step) ==
    /\ remainder(crop, param, step) > Abs(step) \div GRID_TOL_INV
    /\ remainder(crop, param, step) < Abs(step) - (Abs(step) \div GRID_TOL_INV)

GridPars == <<"x_first", "x_last", "y_first", "y_last">>
GridCrop(ext) == <<ext[1], ext[3], ext[4], ext[2]>>
GridParam(i) == <<i.x_first, x_last(i), i.y_first, y_last(i)>>
GridStep(i) == <<i.x_step, i.x_step, i.y_step, i.y_step>>

Missing(ext, k) == GridCrop(ext)[k] = None
Bad(i, ext, k) ==
    /\ ~Missing(ext, k)
    /\ off_grid(GridCrop(ext)[k][1], GridParam(i)[k], GridStep(i)[k])

FirstOf(S) == CHOOSE k \in S : \A j \in S : k <= j

\* the loop over the four parameters.  It stops at the first parameter that
\* is None (crop - param raises TypeError) or, when raising, off the grid;
\* the result is the exception ("" for none) and the parameters reported.
check_crop_coords(l, ext, raising, msg) ==
    IF Len(l) = 0 THEN [err |-> "IndexError", flagged |-> {}]
    ELSE LET i == l[1]
             stop == {k \in 1..4 : Missing(ext, k) \/ (raising /\ Bad(i, ext, k))}
             last == IF stop = {} THEN 4 ELSE FirstOf(stop)
         IN  [err |-> IF stop = {} THEN ""
                      ELSE IF Missing(ext, last) THEN TypeError ELSE msg,
              flagged |-> {GridPars[k] : k \in {j \in 1..last : Bad(i, ext, j)}}]

\* ---- main: the extent handed to the tasks
\* get_raster_extent: ulx, lry, lrx, uly
get_raster_extent(i) == <<i.x_first, y_last(i), x_last(i), i.y_first>>

\* all(extent): no bound is None or zero
all(e) == \A k \in 1..4 : e[k] # None /\ e[k][1] # 0

\* lines 83-97
RECURSIVE main_extent(_, _)
main_extent(e, l) ==
    IF Len(l) = 0 THEN e
    ELSE LET re == get_raster_extent(l[1])
         IN  main_extent([k \in 1..4 |-> IF re[k] < e[k] THEN re[k] ELSE e[k]],
                         Tail(l))

\* ---- the batches and parameters explored
Step == GRID_TOL_INV               \* the usual pixel step: one degree
Half == Step \div 2
Degrees180 == 180 * Step

Grid(x0, y0, c, r, st) ==
    [x_first |-> x0, y_first |-> y0, x_step |-> st, y_step |-> 0 - st,
     ncols |-> c, nrows |-> r]

Grids ==
    { Grid(0, 2 * Step, 2, 2, Step),        \* the reference box
      Grid(Step, Step, 2, 2, Step),         \* one pixel east and south
      Grid(3 * Step, 2 * Step, 2, 2, Step), \* east of the reference box
      Grid(Half, 2 * Step, 2, 2, Step),     \* half a pixel east
      Grid(0, 2 * Step, 3, 2, Step),        \* same origin, one column more
      Grid(0, 4 * Step, 2, 2, 2 * Step) }   \* a coarser grid

Batches == UNION {[1..n -> Grids] : n \in 0..MaxBatch}

Custom(xf, xl, yf, yl) ==
    [xfirst |-> xf, xlast |-> xl, yfirst |-> yf, ylast |-> yl]

NoCustom == Custom(None, None, None, None)

Customs ==
    {Custom(<<0>>, <<2 * Step>>, <<2 * Step>>, <<0>>),
     Custom(<<2 * Step>>, <<Step>>, <<Step>>, <<2 * Step>>),
     Custom(<<Step>>, <<2 * Step>>, <<2 * Step>>, <<Half>>),
     Custom(<<Half>>, <<2 * Step>>, <<2 * Step>>, <<Half>>),
     NoCustom}
    \cup {Custom(<<xf>>, <<2 * Step>>, <<2 * Step>>, <<Step>>) :
            xf \in {Step, Half, Step + 1, Step + 2, Step - 1, Step - 2}}
    \cup {Custom(None, <<2 * Step>>, <<2 * Step>>, <<Step>>),
          Custom(<<Step>>, None, <<2 * Step>>, <<Step>>),
          Custom(<<Step>>, <<2 * Step>>, None, <<Step>>),
          Custom(<<Step>>, <<2 * Step>>, <<2 * Step>>, None)}

CropValues == 0..5

\* the task variables do not take part in a batch
TaskIdle ==
    /\ Fresh /\ FirstRun
    /\ impl = "legacy" /\ xlooks = 1 /\ ylooks = 1
    /\ thresh = <<50, 100>> /\ data = Raster({})
    /\ tag = ORIG /\ hdr = NoHeader
    /\ coherence_path = NoPath /\ coherence_thresh = NoThresh
    /\ coh = CohRaster({})

InitBatch ==
    /\ TaskIdle /\ NoNaming /\ NoAligning /\ NoPool
    /\ crop_opt \in CropValues
    /\ resolver \in {"prepare_ifgs", "get_extents", "old", "main"}
    /\ bpc = "start" /\ berr = ""
    /\ ifgs \in Batches
    /\ custom \in (IF crop_opt = CUSTOM_CROP THEN Customs ELSE {NoCustom})
    /\ use_exceptions \in (IF resolver = "old" THEN BOOLEAN ELSE {FALSE})
    /\ extents = <<>> /\ grid_checked = FALSE /\ flagged = {} /\ n_out = 0

single == <<impl, pc, err, xlooks, ylooks, crop_opt, thresh, data, tag, hdr,
            coherence_path, coherence_thresh, coh, band1, band2,
            resampled_average, nan_frac, md, masking_ran, out_data, out_tag,
            run, history, opened>>

task == <<single, naming, aligning, pool>>

\* ---- actions of the batch
BRaise(e) == bpc' = "error" /\ berr' = e

\* prepare_ifgs, lines 57-75: the crop option, check_looks (the looks of
\* the model are valid), the rasters opened, check_resolution
PrepareIfgs ==
    /\ resolver = "prepare_ifgs" /\ bpc = "start"
    /\ IF crop_opt \notin CROP_OPTIONS THEN BRaise(CropError)
       ELSE IF Len(ifgs) = 0 THEN BRaise("IndexError")
       ELSE IF ~same_resolution(ifgs) THEN BRaise(ResolutionError)
       ELSE bpc' = "opened" /\ UNCHANGED berr
    /\ UNCHANGED <<task, resolver, ifgs, custom, use_exceptions, extents,
                   grid_checked, flagged, n_out>>

\* get_extents, lines 99-108; called by prepare_ifgs or on its own
GetExtents ==
    /\ \/ resolver = "prepare_ifgs" /\ bpc = "opened"
       \/ resolver = "get_extents" /\ bpc = "start"
    /\ CASE crop_opt = MINIMUM_CROP ->
              IF Len(ifgs) = 0 THEN BRaise("ValueError") /\ UNCHANGED extents
              ELSE /\ extents' = Box4(min_bounds(ifgs))
                   /\ bpc' = "resolved" /\ UNCHANGED berr
         [] crop_opt = MAXIMUM_CROP ->
              IF Len(ifgs) = 0 THEN BRaise("ValueError") /\ UNCHANGED extents
              ELSE /\ extents' = Box4(max_bounds(ifgs))
                   /\ bpc' = "resolved" /\ UNCHANGED berr
         [] crop_opt = CUSTOM_CROP ->
              /\ extents' = <<custom.xfirst, custom.ylast,
                              custom.xlast, custom.yfirst>>
              /\ bpc' = "resolved" /\ UNCHANGED berr
         [] OTHER ->
              IF Len(ifgs) = 0 THEN BRaise("IndexError") /\ UNCHANGED extents
              ELSE IF ~same_transform(ifgs)
              THEN BRaise(SameBoundsError) /\ UNCHANGED extents
              ELSE /\ extents' = Box4(get_same_bounds(ifgs))
                   /\ bpc' = "resolved" /\ UNCHANGED berr
    /\ UNCHANGED <<task, resolver, ifgs, custom, use_exceptions,
                   grid_checked, flagged, n_out>>

\* get_extents, lines 114-115
CheckCropCoords ==
    /\ resolver \in {"prepare_ifgs", "get_extents"} /\ bpc = "resolved"
    /\ LET res == check_crop_coords(ifgs, extents, TRUE, GridError)
       IN  /\ grid_checked' = TRUE
           /\ flagged' = res.flagged
           /\ IF res.err = "" THEN bpc' = "returned" /\ UNCHANGED berr
              ELSE BRaise(res.err)
    /\ UNCHANGED <<task, resolver, ifgs, custom, use_exceptions, extents, n_out>>

\* prepare_ifgs, lines 86-94: one warp for every raster
WarpAll ==
    /\ resolver = "prepare_ifgs" /\ bpc = "returned"
    /\ n_out' = Len(ifgs)
    /\ bpc' = "done"
    /\ UNCHANGED <<task, resolver, berr, ifgs, custom, use_exceptions, extents,
                   grid_checked, flagged>>

\* the older prepare_ifgs, lines 34-51 and 75-79
OldResolve ==
    /\ resolver = "old" /\ bpc = "start"
    /\ CASE crop_opt = MINIMUM_CROP ->
              IF Len(ifgs) = 0 THEN BRaise("ValueError") /\ UNCHANGED extents
              ELSE /\ extents' = Box4(min_bounds(ifgs))
                   /\ bpc' = "returned" /\ UNCHANGED berr
         [] crop_opt = MAXIMUM_CROP ->
              IF Len(ifgs) = 0 THEN BRaise("ValueError") /\ UNCHANGED extents
              ELSE /\ extents' = Box4(max_bounds(ifgs))
                   /\ bpc' = "returned" /\ UNCHANGED berr
         [] crop_opt = CUSTOM_CROP ->
              /\ extents' = <<custom.xfirst, custom.ylast,
                              custom.xlast, custom.yfirst>>
              /\ bpc' = "resolved" /\ UNCHANGED berr
         [] crop_opt = NO_CROP ->
              BRaise("NotImplementedError") /\ UNCHANGED extents
         [] OTHER ->
              BRaise(OldCropError) /\ UNCHANGED extents
    /\ UNCHANGED <<task, resolver, ifgs, custom, use_exceptions,
                   grid_checked, flagged, n_out>>

\* the older prepare_ifgs, lines 53-73: raise, or warn and go on
OldGridCheck ==
    /\ resolver = "old" /\ bpc = "resolved"
    /\ LET res == check_crop_coords(ifgs, extents, use_exceptions, OldGridError)
       IN  /\ grid_checked' = TRUE
           /\ flagged' = res.flagged
           /\ IF res.err = "" THEN bpc' = "returned" /\ UNCHANGED berr
              ELSE BRaise(res.err)
    /\ UNCHANGED <<task, resolver, ifgs, custom, use_exceptions, extents, n_out>>

\* the older prepare_ifgs, lines 81-90: gdalwarp for every raster
OldWarp ==
    /\ resolver = "old" /\ bpc = "returned"
    /\ n_out' = Len(ifgs)
    /\ bpc' = "done"
    /\ UNCHANGED <<task, resolver, berr, ifgs, custom, use_exceptions, extents,
                   grid_checked, flagged>>

\* validate_parameters of the configuration, run when the file is read
\* (get_config_params, validate=True): PARAM_VALIDATION for the crop option
\* and CUSTOM_CROP_VALIDATION when the option is 3
ValidateParameters ==
    /\ resolver = "main" /\ bpc = "start"
    /\ IF crop_opt \notin {1, 2, 3, 4} THEN BRaise(ConfigException)
       ELSE IF crop_opt = 3 /\ \E f \in DOMAIN custom : custom[f] = None
       THEN BRaise(ConfigException)
       ELSE bpc' = "validated" /\ UNCHANGED berr
    /\ UNCHANGED <<task, resolver, ifgs, custom, use_exceptions, extents,
                   grid_checked, flagged, n_out>>

\* main, lines 78-97
MainExtent ==
    /\ resolver = "main" /\ bpc = "validated"
    /\ LET extent == <<custom.xfirst, custom.yfirst, custom.xlast, custom.ylast>>
           e0 == IF all(extent)
                 THEN [k \in 1..4 |-> extent[k][1]]
                 ELSE [k \in 1..4 |-> Degrees180]
       IN  extents' = Box4(main_extent(e0, ifgs))
    /\ bpc' = "returned"
    /\ UNCHANGED <<task, resolver, berr, ifgs, custom, use_exceptions,
                   grid_checked, flagged, n_out>>

\* main, lines 99-108: one task for every raster
MainPool ==
    /\ resolver = "main" /\ bpc = "returned"
    /\ n_out' = Len(ifgs)
    /\ bpc' = "done"
    /\ UNCHANGED <<task, resolver, berr, ifgs, custom, use_exceptions, extents,
                   grid_checked, flagged>>

NextBatch ==
    \/ PrepareIfgs
    \/ GetExtents
    \/ CheckCropCoords
    \/ WarpAll
    \/ OldResolve
    \/ OldGridCheck
    \/ OldWarp
    \/ ValidateParameters
    \/ MainExtent
    \/ MainPool

SpecBatch == InitBatch /\ [][NextBatch]_vars

\* ====================================================== output file paths
\* A path is a sequence of characters.
RECURSIVE str(_)
str(n) ==
    LET d == <<"0", "1", "2", "3", "4", "5", "6", "7", "8", "9">>[(n % 10) + 1]
    IN  IF n < 10 THEN <<d>> ELSE str(n \div 10) \o <<d>>

\* the last position of character c in s, 0 when there is none
rfind(s, c) ==
    LET at == {k \in DOMAIN s : s[k] = c}
    IN  IF at = {} THEN 0 ELSE CHOOSE k \in at : \A j \in at : j <= k

basename(p) == SubSeq(p, rfind(p, "/") + 1, Len(p))
dirname(p) == SubSeq(p, 1, rfind(p, "/") - 1)

\* os.path.splitext: the extension starts at the last dot of the last
\* component, unless only dots precede it there
splitext(p) ==
    LET sep == rfind(p, "/")
        dot == rfind(p, ".")
    IN  IF dot > sep /\ \E j \in (sep + 1)..(dot - 1) : p[j] # "."
        THEN <<SubSeq(p, 1, dot - 1), SubSeq(p, dot, Len(p))>>
        ELSE <<p, <<>>>>

join(a, b) ==
    IF Len(a) = 0 \/ a[Len(a)] = "/" THEN a \o b ELSE a \o <<"/">> \o b

\* mlooked_path with the crop option left out of the suffix (a variant)
mlooked_path_no_crop(path, looks, crop_out) ==
    splitext(path)[1] \o <<"_">> \o str(looks) \o <<"r", "l", "k", "s">>
        \o splitext(path)[2]

\* "{base}_{looks}rlks_{crop_out}cr{ext}"
mlooked_path(path, looks, crop_out) ==
    LET base == splitext(path)[1]
        ext == splitext(path)[2]
    IN  base \o <<"_">> \o str(looks) \o <<"r", "l", "k", "s", "_">>
             \o str(crop_out) \o <<"c", "r">> \o ext

\* fname, ext = os.path.basename(inpath).split('.') raises ValueError unless
\* the name has exactly one dot; NoDir is outpath None
NoDir == <<"N", "o", "n", "e">>
BadName == <<"V", "a", "l", "u", "e", "E", "r", "r", "o", "r">>

output_tiff_filename(inpath, outpath) ==
    LET b == basename(inpath)
        dots == {k \in DOMAIN b : b[k] = "."}
        dot == rfind(b, ".")
        fname == SubSeq(b, 1, dot - 1)
        ext == SubSeq(b, dot + 1, Len(b))
        dir == IF outpath = NoDir THEN dirname(inpath) ELSE outpath
    IN  IF Cardinality(dots) # 1 THEN BadName
        ELSE IF ext = <<"t", "i", "f">>
        THEN join(dir, fname \o <<".", "t", "i", "f">>)
        ELSE join(dir, fname \o <<"_">> \o ext \o <<".", "t", "i", "f">>)

\* ---- naming the output of prepare_ifg
Paths ==
    { <<"d", "/", "a", ".", "t", "i", "f">>,
      <<"d", "/", "a", ".", "u", "n", "w">>,
      <<"d", "/", "a", "_", "u", "n", "w", ".", "t", "i", "f">>,
      <<"d", "/", "a", ".", "b", ".", "t", "i", "f">>,
      <<"a", ".", "t", "i", "f">> }

OutDirs == {NoDir, <<"o">>}
PathLooks == {1, 2, 12}

InitPath ==
    /\ Fresh /\ FirstRun /\ NoBatch /\ NoAligning /\ NoPool
    /\ impl = "warp"
    /\ xlooks \in PathLooks /\ ylooks \in PathLooks
    /\ crop_opt \in CROP_OPTIONS
    /\ thresh = <<50, 100>> /\ data = Raster({})
    /\ tag = ORIG /\ hdr = NoHeader
    /\ coherence_path = NoPath /\ coherence_thresh = NoThresh
    /\ coh = CohRaster({})
    /\ raster_path \in Paths /\ out_path \in OutDirs
    /\ named = <<>> /\ ppc = "start"

\* prepare_ifg, line 55: the copy of the bypass is named from the input path
BypassPath ==
    /\ ppc = "start" /\ Len(named) < MaxRuns
    /\ ~do_multilook /\ crop_opt = ALREADY_SAME_SIZE
    /\ named' = Append(named, mlooked_path(raster_path, xlooks, crop_opt))
    /\ UNCHANGED <<single, batch, aligning, pool, raster_path, out_path, ppc>>

\* _warp, lines 72-77
WarpPath ==
    /\ ppc = "start" /\ Len(named) < MaxRuns
    /\ ~(~do_multilook /\ crop_opt = ALREADY_SAME_SIZE)
    /\ LET op == output_tiff_filename(raster_path, out_path)
       IN  IF xlooks # ylooks \/ op = BadName
           THEN ppc' = "error" /\ UNCHANGED named
           ELSE /\ named' = Append(named, mlooked_path(op, ylooks, crop_opt))
                /\ UNCHANGED ppc
    /\ UNCHANGED <<single, batch, aligning, pool, raster_path, out_path>>

NextPath ==
    \/ BypassPath
    \/ WarpPath

SpecPath == InitPath /\ [][NextPath]_vars

\* ---- _alignment: the correction of the averaged array
\* Cells are numbered from 1 here: the cell a[i, j] of the code is <<i + 1, j + 1>>.
Sides == 1..MaxSide

\* _get_resampled_data_size: xres, yres of a source of ysize rows, xsize columns
get_resampled_data_size(xscale, yscale, shape) ==
    <<shape[2] \div xscale, shape[1] \div yscale>>

\* resampled_average.shape: the window of the source that the extent keeps,
\* at the new resolution
shape_of(win, looks) ==
    <<RoundHalfEven(win[1], looks), RoundHalfEven(win[2], looks)>>

\* the cells of the two arrays stand for themselves
averaged_cell(r, c) == <<"average", r, c>>
nearest_cell(r, c) == <<"nearest", r, c>>

\* the first index of the slice a[s:] of an axis of n cells
slice_start(s, n) ==
    IF s < 0 THEN (IF n + s < 0 THEN 0 ELSE n + s)
    ELSE (IF s > n THEN n ELSE s)

alignment(shape, win, looks) ==
    LET res == get_resampled_data_size(looks, looks, shape)
        xres == res[1]
        yres == res[2]
        nrows == shape_of(win, looks)[1]
        ncols == shape_of(win, looks)[2]
        r0 == slice_start(yres - nrows, nrows)
        c0 == slice_start(xres - ncols, ncols)
    IN  [o \in (1..nrows) \X (1..ncols) |->
            IF (nrows > yres \/ ncols > xres) /\ o[1] > r0 /\ o[2] > c0
            THEN nearest_cell(o[1], o[2])
            ELSE averaged_cell(o[1], o[2])]

InitAlign ==
    /\ Fresh /\ FirstRun /\ NoBatch /\ NoNaming /\ NoPool
    /\ impl = "mp"
    /\ xlooks \in LookSet /\ ylooks = xlooks
    /\ crop_opt \in {MINIMUM_CROP, ALREADY_SAME_SIZE}
    /\ thresh = <<50, 100>> /\ data = Raster({})
    /\ tag = ORIG /\ hdr = NoHeader
    /\ coherence_path = NoPath /\ coherence_thresh = NoThresh
    /\ coh = CohRaster({})
    /\ src_shape \in Sides \X Sides
    /\ window \in {w \in Sides \X Sides :
                     /\ w[1] <= src_shape[1] /\ w[2] <= src_shape[2]
                     /\ crop_opt = ALREADY_SAME_SIZE => w = src_shape}
    /\ corrected = <<>> /\ apc = "averaged"

Alignment ==
    /\ apc = "averaged"
    /\ corrected' = alignment(src_shape, window, xlooks)
    /\ apc' = "aligned"
    /\ UNCHANGED <<single, batch, naming, pool, src_shape, window>>

NextAlign == Alignment

SpecAlign == InitAlign /\ [][NextAlign]_vars

\* ---- main, lines 99-108: the pool of tasks
\* multiprocessing.Pool.map cuts the list into chunks of
\* ceil(n / (4 * processes)) tasks; a worker runs a chunk with
\* list(map(func, chunk)), so a task that raises ends its chunk; the result
\* of map keeps the exception that arrives first and raises it when every
\* chunk has been run.
PoolSizes == {1, 2}

\* the path of the k-th file of the list: d/ifg<k>.tif
converted_path(k) ==
    <<"d", "/", "i", "f", "g">> \o str(k) \o <<".", "t", "i", "f">>

\* the output path of a file: its path with the suffix of looks and crop option
sampled_path(k) == mlooked_path(converted_path(k), xlooks, crop_opt)

\* Pool.map with one chunk for every task (a variant)
chunksize_one(n, processes) == IF n = 0 THEN 0 ELSE 1

chunksize(n, processes) ==
    (n \div (4 * processes)) + (IF n % (4 * processes) # 0 THEN 1 ELSE 0)

ChunkSize == chunksize(Len(jobs), nproc)
NChunks == IF ChunkSize = 0 THEN 0 ELSE (Len(jobs) + ChunkSize - 1) \div ChunkSize
\* the tasks of chunk c, in the order of the list
Chunk(c) ==
    LET lo == (c - 1) * ChunkSize
        hi == IF c * ChunkSize < Len(jobs) THEN c * ChunkSize ELSE Len(jobs)
    IN  [i \in 1..(hi - lo) |-> lo + i]

InitPool ==
    /\ TaskIdle /\ NoBatch /\ NoNaming /\ NoAligning
    /\ crop_opt = MINIMUM_CROP
    /\ nproc \in PoolSizes
    /\ \E n \in 0..MaxJobs :
          /\ jobs = [k \in 1..n |-> converted_path(k)]
          /\ fails \in SUBSET (1..n)
          /\ tstate = [k \in 1..n |-> "queued"]
    /\ held = [w \in 1..nproc |-> <<>>]
    /\ next_chunk = 1 /\ finished = 0
    /\ files = <<>>
    /\ stored = <<>>
    /\ mpc = "start"

pool_rest == <<single, batch, naming, aligning, jobs, fails, nproc>>

\* pool.map puts the chunks in the task queue
PoolMap ==
    /\ mpc = "start"
    /\ mpc' = "mapped"
    /\ UNCHANGED <<pool_rest, tstate, held, next_chunk, finished, files, stored>>

\* a free worker takes the next chunk of the queue
TakeChunk(w) ==
    /\ mpc = "mapped" /\ held[w] = <<>> /\ next_chunk <= NChunks
    /\ held' = [held EXCEPT ![w] = <<next_chunk, 1>>]
    /\ next_chunk' = next_chunk + 1
    /\ UNCHANGED <<pool_rest, tstate, finished, files, stored, mpc>>

\* a worker runs the next task of its chunk: _prepifg_multiprocessing writes
\* the output file of its raster, or raises
RunTask(w) ==
    /\ mpc = "mapped" /\ held[w] # <<>>
    /\ LET c == held[w][1]
           i == held[w][2]
           k == Chunk(c)[i]
           last == i = Len(Chunk(c))
       IN  IF k \in fails
           THEN /\ tstate' = [j \in DOMAIN tstate |->
                                IF j = k THEN "failed"
                                ELSE IF \E m \in (i + 1)..Len(Chunk(c)) : Chunk(c)[m] = j
                                THEN "skipped" ELSE tstate[j]]
                /\ stored' = IF stored = <<>> THEN <<k>> ELSE stored
                /\ held' = [held EXCEPT ![w] = <<>>]
                /\ finished' = finished + 1
                /\ UNCHANGED files
           ELSE /\ tstate' = [tstate EXCEPT ![k] = "done"]
                /\ files' = (sampled_path(k) :> k) @@ files
                /\ held' = [held EXCEPT ![w] = IF last THEN <<>> ELSE <<c, i + 1>>]
                /\ finished' = IF last THEN finished + 1 ELSE finished
                /\ UNCHANGED stored
    /\ UNCHANGED <<pool_rest, next_chunk, mpc>>

\* every chunk has been run: map raises the stored exception, or returns and
\* the pool is closed
MapReturn ==
    /\ mpc = "mapped" /\ finished = NChunks
    /\ mpc' = IF stored # <<>> THEN "raised" ELSE "closed"
    /\ UNCHANGED <<pool_rest, tstate, held, next_chunk, finished, files, stored>>

NextPool ==
    \/ PoolMap
    \/ \E w \in DOMAIN held : TakeChunk(w)
    \/ \E w \in DOMAIN held : RunTask(w)
    \/ MapReturn

SpecPool == InitPool /\ [][NextPool]_vars

\* ================================================================== claims
\* the block average has been computed by resample or by gdal_average
Averaged == DOMAIN resampled_average # {}
\* the no-data cells of the source under output cell o, and the valid ones
NoData(o) == {p \in Footprint(o, xlooks, ylooks) : data[p] = 0}
Valid(o) == Footprint(o, xlooks, ylooks) \ NoData(o)
MeanOf(S) == IF S = {} THEN NaN ELSE <<SumOver(S, read_array(data)), Cardinality(S)>>
\* f of the block of o over the Lx * Ly cells of a block
BlockF(o) == <<Cardinality(NoData(o)), xlooks * ylooks>>

\* C1: without coherence masking, every output cell is the mean of its
\* block's valid cells if f < t, or if f = 0 and t = 0, and is no-data
\* otherwise (f = no-data cells of the block / (Lx * Ly), t = NaN threshold).
C1_BlockAverageLaw ==
    Averaged /\ ~masking_ran =>
        \A o \in DOMAIN resampled_average :
            Same(resampled_average[o],
                 IF Lt(BlockF(o), thresh)
                    \/ (Cardinality(NoData(o)) = 0 /\ thresh[1] = 0)
                 THEN MeanOf(Valid(o))
                 ELSE NaN)

\* C2: without coherence masking, with NaN threshold 0 an output cell is
\* no-data iff its block holds at least one no-data cell, and with NaN
\* threshold 1 it is no-data iff every cell of its block is no-data.
C2_BoundaryLaw ==
    Averaged /\ ~masking_ran =>
        \A o \in DOMAIN resampled_average :
            /\ thresh[1] = 0 =>
                  (IsNaN(resampled_average[o]) <=> NoData(o) # {})
            /\ thresh[1] = thresh[2] =>
                  (IsNaN(resampled_average[o]) <=> Valid(o) = {})

\* C3: once coherence_masking has run, every pixel of the masked source
\* holds its source value if its coherence is >= the threshold (equality
\* included) and NaN otherwise.
C3_MaskInclusive ==
    masking_ran =>
        \A p \in Pix :
            /\ coh[p] >= coherence_thresh[1] => band1[p] = Val(data[p])
            /\ coh[p] < coherence_thresh[1] => IsNaN(band1[p])

\* C3 witness: a pixel at the threshold kept and a pixel just below rejected
C3_Witness ==
    /\ masking_ran
    /\ \E p, q \in Pix :
          /\ coh[p] = coherence_thresh[1] /\ data[p] # 0
          /\ band1[p] = Val(data[p])
          /\ coh[q] = coherence_thresh[1] - 1 /\ IsNaN(band1[q])

\* the pixels of the block of o that the masker rejected
Rejected(o) ==
    {p \in Footprint(o, xlooks, ylooks) : coh[p] < coherence_thresh[1]}

\* the task was given a coherence raster and a coherence threshold
HasCoherenceSpec == coherence_path # NoPath /\ coherence_thresh # NoThresh

\* C4: in a task with a coherence spec the masking is done before the block
\* average, and every rejected pixel counts in its block's NaN fraction and
\* is left out of the block's mean.
C4_MaskedIsMissing ==
    DOMAIN nan_frac # {} /\ HasCoherenceSpec =>
        /\ masking_ran
        /\ \A o \in DOMAIN nan_frac :
              LET missing == NoData(o) \cup Rejected(o)
              IN  /\ Eq(nan_frac[o],
                        <<Cardinality(missing), Cardinality(Footprint(o, xlooks, ylooks))>>)
                  /\ ~IsNaN(resampled_average[o]) =>
                        Eq(resampled_average[o],
                           MeanOf(Footprint(o, xlooks, ylooks) \ missing))

\* the task has gone past its coherence step
PastCoherence ==
    pc \in {"masked", "averaged", "tagged"} \/ (pc = "done" /\ md # "")
ExactlyOne == (coherence_path = NoPath) # (coherence_thresh = NoThresh)

\* C5: the task fails with a coherence configuration error iff exactly one
\* of the coherence path and the coherence threshold is supplied.
C5_CoherenceSpecXor ==
    /\ err \in {"no_thresh", "no_path"} => ExactlyOne
    /\ PastCoherence => ~ExactlyOne

\* the metadata step of _warp has run on the task's raster
Prepared == impl = "warp" /\ (md # "" \/ err = "data_type")

\* C6: prepare from Orig gives Multilooked without coherence masking and
\* Coherence with it; from Multilooked it stays Multilooked without and
\* becomes Coherence with it.
C6_IfgTransitions ==
    Prepared /\ tag \in {ORIG, MULTILOOKED} =>
        /\ err = ""
        /\ md = IF masking_ran THEN COHERENCE ELSE MULTILOOKED

\* C6 witness: an Orig raster prepared with coherence masking
C6_Witness ==
    /\ Prepared /\ pc = "done" /\ tag = ORIG /\ masking_ran
    /\ out_tag = COHERENCE

\* C7: prepare on a Coherence raster leaves it Coherence and raises no
\* error, with and without coherence masking.
C7_CoherenceNoOp ==
    Prepared /\ tag = COHERENCE => err = "" /\ md = COHERENCE

\* C8: prepare turns Dem into MlookedDem and Incidence into
\* MlookedIncidence, with and without coherence masking.
C8_DemIncidence ==
    Prepared =>
        /\ tag = DEM => err = "" /\ md = MLOOKED_DEM
        /\ tag = INCIDENCE => err = "" /\ md = MLOOKED_INC

\* C8 witness: a Dem raster prepared with coherence masking
C8_Witness ==
    /\ Prepared /\ pc = "done" /\ tag = DEM /\ masking_ran
    /\ out_tag = MLOOKED_DEM

\* C9: prepare on a MlookedDem or MlookedIncidence raster leaves the stage
\* unchanged and raises no error.
C9_TerminalNoOp ==
    Prepared /\ tag \in {MLOOKED_DEM, MLOOKED_INC} => err = "" /\ md = tag

SameFlags ==
    /\ run > 1
    /\ coherence_path = history[run - 1].path
    /\ coherence_thresh = history[run - 1].ct

C11_Idempotent ==
    SameFlags => /\ err = ""
                 /\ md # "" => md = tag
                 /\ out_tag # "" => out_tag = tag

\* the part of C11 about interferograms: it holds
C11_IfgPart ==
    SameFlags /\ tag \in {MULTILOOKED, COHERENCE} => C11_Idempotent

\* ------------------------------------------------- claims on the extents
Legacy == resolver \in {"prepare_ifgs", "get_extents"}
Computed == extents # <<>>
Returned == bpc \in {"returned", "done"}
ConfigErrors ==
    {CropError, ResolutionError, SameBoundsError, OldCropError, ConfigException}
GridErrors == {GridError, OldGridError}

SetMax(S) == CHOOSE m \in S : \A v \in S : v <= m
SetMin(S) == CHOOSE m \in S : \A v \in S : m <= v
XFirsts == {ifgs[k].x_first : k \in DOMAIN ifgs}
YFirsts == {ifgs[k].y_first : k \in DOMAIN ifgs}
XLasts == {x_last(ifgs[k]) : k \in DOMAIN ifgs}
YLasts == {y_last(ifgs[k]) : k \in DOMAIN ifgs}
NativeBox(i) == <<i.x_first, y_last(i), x_last(i), i.y_first>>
Reorderings(l) ==
    {[k \in DOMAIN l |-> l[p[k]]] : p \in Permutations(DOMAIN l)}
TwoDifferent ==
    /\ Len(ifgs) >= 2
    /\ \A k \in DOMAIN ifgs : Box4(NativeBox(ifgs[k])) # extents

\* C12: under the Intersection policy the extent computed for a non-empty
\* batch is xmin = max x_first, ymin = max y_last, xmax = min x_last,
\* ymax = min y_first, and every ordering of the batch gives the same extent.
C12_Intersection ==
    (resolver # "main" /\ crop_opt = MINIMUM_CROP /\ Computed) =>
        /\ extents = Box4(<<SetMax(XFirsts), SetMax(YLasts),
                            SetMin(XLasts), SetMin(YFirsts)>>)
        /\ \A o \in Reorderings(ifgs) : Box4(min_bounds(o)) = extents

C12_Witness ==
    /\ resolver \in {"prepare_ifgs", "old"} /\ crop_opt = MINIMUM_CROP
    /\ bpc = "done" /\ TwoDifferent

\* C13: under the Union policy the extent computed for a non-empty batch is
\* xmin = min x_first, ymin = min y_last, xmax = max x_last,
\* ymax = max y_first, and it contains the native box of every raster.
C13_Union ==
    (resolver # "main" /\ crop_opt = MAXIMUM_CROP /\ Computed) =>
        /\ extents = Box4(<<SetMin(XFirsts), SetMin(YLasts),
                            SetMax(XLasts), SetMax(YFirsts)>>)
        /\ \A k \in DOMAIN ifgs :
              /\ extents[1][1] <= ifgs[k].x_first
              /\ extents[2][1] <= y_last(ifgs[k])
              /\ x_last(ifgs[k]) <= extents[3][1]
              /\ ifgs[k].y_first <= extents[4][1]

C13_Witness ==
    /\ resolver \in {"prepare_ifgs", "old"} /\ crop_opt = MAXIMUM_CROP
    /\ bpc = "done" /\ TwoDifferent

\* C14: under the Custom policy the extent returned is the four supplied
\* bounds, and a missing bound is a configuration error, not a default.
SomeBoundMissing == \E f \in DOMAIN custom : custom[f] = None

C14_Custom ==
    (crop_opt = CUSTOM_CROP /\ Len(ifgs) > 0) =>
        /\ Returned =>
              /\ ~SomeBoundMissing
              /\ extents = IF resolver = "main"
                           THEN <<custom.xfirst, custom.yfirst,
                                  custom.xlast, custom.ylast>>
                           ELSE <<custom.xfirst, custom.ylast,
                                  custom.xlast, custom.yfirst>>
        /\ SomeBoundMissing /\ bpc = "error" => berr \in ConfigErrors

\* the part of C14 that the validation of the configuration implements
C14_ValidationPart ==
    (resolver = "main" /\ crop_opt = CUSTOM_CROP /\ SomeBoundMissing) =>
        bpc \in {"start", "error"} /\ (bpc = "error" => berr = ConfigException)

\* C15: under the Unchanged policy resolution succeeds only if every raster
\* has the extent and step of the first, fails with a configuration error
\* otherwise, and returns that shared extent.
AllSameGrid ==
    \A k \in DOMAIN ifgs :
        /\ NativeBox(ifgs[k]) = NativeBox(ifgs[1])
        /\ ifgs[k].x_step = ifgs[1].x_step /\ ifgs[k].y_step = ifgs[1].y_step

C15_Unchanged ==
    (Legacy /\ crop_opt = ALREADY_SAME_SIZE /\ Len(ifgs) > 0) =>
        /\ Computed => /\ AllSameGrid
                       /\ extents = Box4(NativeBox(ifgs[1]))
                       /\ extents[2][1] <= extents[4][1]
        /\ bpc = "error" => berr \in ConfigErrors

\* C15 for batches of rasters of one size: it holds
C15_SameSizePart ==
    (\A k \in DOMAIN ifgs : ifgs[k].ncols = ifgs[1].ncols) => C15_Unchanged

C17_EmptyBatch ==
    (Len(ifgs) = 0 /\ crop_opt \in 1..4) =>
        /\ ~Returned
        /\ bpc = "error" => berr \in ConfigErrors

\* C18: every extent returned has xmin < xmax and ymin < ymax.
C18_ProperBox ==
    (Returned /\ Len(ifgs) > 0) =>
        /\ \A k \in 1..4 : extents[k] # None
        /\ extents[1][1] < extents[3][1]
        /\ extents[2][1] < extents[4][1]

\* ---- grid alignment
\* the boundary lies within GRID_TOL steps of a whole number of steps from
\* the origin
Within(b, o, s) ==
    \E k \in 0..((Abs(b - o) \div Abs(s)) + 1) :
        Abs(Abs(b - o) - k * Abs(s)) <= Abs(s) \div GRID_TOL_INV

Aligned(k) ==
    Within(GridCrop(extents)[k][1], GridParam(ifgs[1])[k], GridStep(ifgs[1])[k])

Misaligned == {k \in 1..4 : ~Aligned(k)}

\* the validator ran on four bounds against a reference raster
GridValidated ==
    /\ grid_checked /\ Len(ifgs) > 0
    /\ \A k \in 1..4 : extents[k] # None

Raises ==
    /\ berr \in GridErrors
    /\ flagged = {GridPars[FirstOf(Misaligned)]}

C19_WholeStepPasses ==
    /\ resolver = "get_extents" /\ crop_opt = CUSTOM_CROP /\ bpc = "returned"
    /\ extents[1][1] - ifgs[1].x_first = ifgs[1].x_step

C19_ToleranceEdgePasses ==
    /\ resolver = "get_extents" /\ crop_opt = CUSTOM_CROP /\ bpc = "returned"
    /\ extents[1][1] - ifgs[1].x_first = ifgs[1].x_step + 1

\* C20 as claimed: under the Unchanged policy the validator is not run and
\* no grid-alignment error is raised.
C20_Skipped ==
    crop_opt = ALREADY_SAME_SIZE => ~grid_checked /\ berr \notin GridErrors

\* C20 amended: under the Unchanged policy no grid-alignment error is raised
\* and no parameter is reported; get_extents does run the validator on the
\* extent it returns, the older prepare_ifgs and main do not.
C20_NeverRejects ==
    crop_opt = ALREADY_SAME_SIZE =>
        /\ berr \notin GridErrors /\ flagged = {}
        /\ Legacy /\ Returned => grid_checked
        /\ ~Legacy => ~grid_checked

C20_Witness ==
    /\ crop_opt = ALREADY_SAME_SIZE /\ resolver = "prepare_ifgs"
    /\ bpc = "done" /\ grid_checked
    /\ Len(ifgs) >= 2 /\ ifgs[1] # ifgs[2]

\* ------------------------------------------------ claims on the bypass
Bypass == xlooks = 1 /\ ylooks = 1 /\ crop_opt = ALREADY_SAME_SIZE

\* C21: with looks 1 and the Unchanged policy the finished task's output
\* holds exactly the pixel values of the source file: nothing is averaged,
\* thresholded or converted to no-data.
C21_BypassCopy ==
    (impl \in {"warp", "mp"} /\ Bypass /\ pc = "done") =>
        out_data = read_array(data)

\* C21 for prepare_ifg alone: it holds
C21_WarpPart == impl = "warp" => C21_BypassCopy

\* C22: in the bypass case the tag of the output is the successor of the
\* source's tag: Orig -> Multilooked, Dem -> MlookedDem,
\* Incidence -> MlookedIncidence.
Successor(t) ==
    CASE t = ORIG -> MULTILOOKED
      [] t = DEM -> MLOOKED_DEM
      [] t = INCIDENCE -> MLOOKED_INC
      [] OTHER -> t

C22_BypassTag ==
    (impl \in {"warp", "mp"} /\ Bypass /\ pc = "done"
        /\ tag \in {ORIG, DEM, INCIDENCE}) =>
        out_tag = Successor(tag)

\* C22 for an interferogram in prepare_ifg: it holds
C22_WarpIfgPart == (impl = "warp" /\ tag = ORIG) => C22_BypassTag

\* C23: unequal looks make preparation fail with a configuration error
\* raised while no source raster has been opened and no output written.
C23_LooksBeforeTouch ==
    xlooks # ylooks =>
        /\ pc \in {"start", "error"}
        /\ pc = "error" => /\ err = "looks"
                           /\ ~opened
                           /\ out_tag = "" /\ out_data = Blank

\* what holds of prepare_ifg: the error is raised and nothing is written
C23_WarpPart ==
    (impl = "warp" /\ xlooks # ylooks) =>
        /\ pc \in {"start", "error"}
        /\ pc = "error" => err = "looks" /\ out_tag = "" /\ out_data = Blank

\* ---- C25
LookCropPairs == PathLooks \X CROP_OPTIONS

\* the name before the suffix is put in: the input path in the bypass, the
\* tif name in the output directory otherwise
Unsuffixed(l, c) ==
    IF l = 1 /\ c = ALREADY_SAME_SIZE
    THEN raster_path
    ELSE output_tiff_filename(raster_path, out_path)

PathFor(l, c) == mlooked_path(Unsuffixed(l, c), l, c)

\* e is <base>_<l>rlks_<c>cr<ext>, base and ext being the two parts of src and
\* ext being empty or a file extension
HasForm(e, src, l, c) ==
    \E k \in 0..Len(src) :
        LET base == SubSeq(src, 1, k)
            ext  == SubSeq(src, k + 1, Len(src))
        IN  /\ ext = <<>> \/ (ext[1] = "." /\ \A i \in 2..Len(ext) : ext[i] \notin {".", "/"})
            /\ e = base \o <<"_">> \o str(l) \o <<"r", "l", "k", "s", "_">>
                        \o str(c) \o <<"c", "r">> \o ext

\* C25: the output path depends on the input path, the look factor and the
\* crop option only: it has the form <base>_<looks>rlks_<crop>cr<ext>, a
\* repeated call with the same configuration names the same file, and for the
\* same input two different (looks, crop) pairs name different files.
C25_PathFunction ==
    \A i \in 1..Len(named) :
        /\ HasForm(named[i], Unsuffixed(ylooks, crop_opt), ylooks, crop_opt)
        /\ named[i] = named[1]
        /\ named[i] = PathFor(ylooks, crop_opt)
        /\ \A p \in LookCropPairs :
               p # <<ylooks, crop_opt>> => PathFor(p[1], p[2]) # named[i]

C25_Witness ==
    /\ Len(named) = MaxRuns
    /\ ylooks = 12 /\ crop_opt = MAXIMUM_CROP
    /\ raster_path = <<"d", "/", "a", ".", "u", "n", "w">>
    /\ out_path = <<"o">>
    /\ named[1] = <<"o", "/", "a", "_", "u", "n", "w", "_", "1", "2", "r", "l", "k",
                    "s", "_", "2", "c", "r", ".", "t", "i", "f">>

C25_BypassWitness ==
    /\ Len(named) = MaxRuns
    /\ ylooks = 1 /\ crop_opt = ALREADY_SAME_SIZE
    /\ named[1] = <<"d", "/", "a", "_", "1", "r", "l", "k", "s", "_", "4", "c", "r",
                    ".", "u", "n", "w">>

\* ---- C26
\* the result of the Extent Resolver for the batch under crop policy c
PolicyExtent(c) ==
    CASE c = MINIMUM_CROP ->
             Box4(<<SetMax(XFirsts), SetMax(YLasts), SetMin(XLasts), SetMin(YFirsts)>>)
      [] c = MAXIMUM_CROP ->
             Box4(<<SetMin(XFirsts), SetMin(YLasts), SetMax(XLasts), SetMax(YFirsts)>>)
      [] c = CUSTOM_CROP ->
             <<custom.xfirst, custom.ylast, custom.xlast, custom.yfirst>>
      [] OTHER -> Box4(NativeBox(ifgs[1]))

Dispatched == n_out > 0

\* C26: the extent that main hands to the tasks of a batch is the result of
\* the Extent Resolver for the configured crop option: the intersection box,
\* the union box, the four custom bounds, or the shared native extent.
C26_MainExtent ==
    (resolver = "main" /\ Dispatched) => extents = PolicyExtent(crop_opt)

\* prepare_ifgs hands the resolver's extent to its warps under the
\* intersection, union and custom options: it holds
C26_PrepareIfgsPart ==
    (resolver = "prepare_ifgs" /\ Dispatched /\ crop_opt # ALREADY_SAME_SIZE)
        => extents = PolicyExtent(crop_opt)

\* main under the union option hands over a box that is not the union box
C26_MainNotUnion ==
    /\ resolver = "main" /\ Dispatched /\ crop_opt = MAXIMUM_CROP
    /\ extents # PolicyExtent(MAXIMUM_CROP)

\* ---- C27
Drivers == {"main", "prepare_ifgs"}

\* C27: in a run of the driver the extent is resolved and the grid is
\* validated against it before a task is dispatched, no task is dispatched
\* when either fails, and the tasks all receive the resolved extent.
C27_ResolveValidateDispatch ==
    resolver \in Drivers =>
        /\ Dispatched => Computed /\ grid_checked /\ flagged = {}
        /\ bpc = "error" => ~Dispatched

\* C27 for prepare_ifgs alone: it holds
C27_PrepareIfgsPart ==
    resolver = "prepare_ifgs" => C27_ResolveValidateDispatch

\* main has dispatched the tasks of a batch with a raster off the grid of the
\* extent, and no validation was run
C27_MainUnvalidated ==
    /\ resolver = "main" /\ Dispatched /\ ~grid_checked
    /\ check_crop_coords(ifgs, extents, TRUE, GridError).err # ""

\* ---- C24
MapOver == mpc \in {"raised", "closed"}
Written(k) == sampled_path(k) \in DOMAIN files /\ files[sampled_path(k)] = k
\* the rasters whose error the batch call reports
Reported == IF mpc = "raised" THEN {stored[1]} ELSE {}

\* C24: when tasks of the pool fail, the tasks of the other rasters still
\* run and write their outputs, and the batch call fails and reports every
\* failed raster, not only the first.
C24_AllFailuresReported ==
    MapOver =>
        /\ \A k \in DOMAIN jobs \ fails : tstate[k] = "done" /\ Written(k)
        /\ fails # {} => mpc = "raised" /\ Reported = fails

\* the part of C24 that holds: the batch call fails when a task fails, after
\* every chunk has been run, and the error it raises is the error of one of
\* the failed tasks
C24_BatchFailsPart ==
    MapOver =>
        /\ finished = NChunks
        /\ fails # {} => mpc = "raised" /\ Reported \subseteq fails

\* two tasks have failed and the call reports one of them
C24_OneOfTwo ==
    /\ mpc = "raised"
    /\ Cardinality({k \in DOMAIN jobs : tstate[k] = "failed"}) = 2
    /\ Cardinality(Reported) = 1

\* a task that does not fail was never run: the task before it in its chunk failed
C24_SiblingSkipped ==
    /\ MapOver
    /\ \E k \in DOMAIN jobs \ fails : tstate[k] = "skipped" /\ ~Written(k)

\* ---- C28
\* the tasks that are run: those with no failing task before them in their chunk
Runs(k) ==
    \A c \in 1..NChunks : \A i \in DOMAIN Chunk(c) :
        Chunk(c)[i] = k => \A m \in 1..(i - 1) : Chunk(c)[m] \notin fails

OwnFiles ==
    /\ \A p \in DOMAIN files : p = sampled_path(files[p])
    /\ \A k, l \in DOMAIN jobs : k # l => sampled_path(k) # sampled_path(l)

\* C28: the pool runs exactly one task for every raster of the list, a task
\* writes the output file of its own raster only, and the output files are
\* the same for every order in which the tasks are run.
C28_OneTaskPerRaster ==
    /\ \A k \in DOMAIN jobs :
          Cardinality({ci \in (1..NChunks) \X (1..MaxJobs + 1) :
                         ci[2] \in DOMAIN Chunk(ci[1]) /\ Chunk(ci[1])[ci[2]] = k}) = 1
    /\ OwnFiles
    /\ MapOver =>
          /\ \A k \in DOMAIN jobs : tstate[k] \in {"done", "failed"}
          /\ \A k \in DOMAIN jobs \ fails : Written(k)
          /\ DOMAIN files = {sampled_path(k) : k \in DOMAIN jobs \ fails}

\* C28 for a list where no task fails: it holds
C28_NoFailurePart == fails = {} => C28_OneTaskPerRaster

\* the output files depend on the list alone, whatever the order of the tasks
\* and whichever tasks fail: it holds
C28_OrderFreePart ==
    /\ OwnFiles
    /\ \A k \in DOMAIN jobs : tstate[k] # "queued" => (tstate[k] = "skipped" <=> ~Runs(k))
    /\ MapOver =>
          DOMAIN files = {sampled_path(k) : k \in {j \in DOMAIN jobs \ fails : Runs(j)}}

\* two workers have run the tasks of a list in an order that is not the
\* order of the list
C28_OutOfOrder ==
    /\ nproc = 2 /\ fails = {} /\ Len(jobs) >= 3
    /\ tstate[1] = "queued" /\ tstate[2] = "done" /\ tstate[3] = "done"

\* output_tiff_filename gives one name to two different inputs
C28_NameClash ==
    \E p, q \in Paths :
        /\ p # q /\ output_tiff_filename(p, out_path) # BadName
        /\ output_tiff_filename(p, out_path) = output_tiff_filename(q, out_path)

\* ---- C29
Aligned29 == apc = "aligned"
Yres == src_shape[1] \div ylooks
Xres == src_shape[2] \div xlooks
Nrows == shape_of(window, xlooks)[1]
Ncols == shape_of(window, xlooks)[2]

\* C29: after the correction every cell with row < yres and col < xres holds
\* its averaged value, every cell of the trailing rows and columns holds its
\* nearest-neighbour value, and an array of yres rows and xres columns is
\* unchanged.
C29_Correction ==
    Aligned29 =>
        /\ DOMAIN corrected = (1..Nrows) \X (1..Ncols)
        /\ \A o \in DOMAIN corrected :
              /\ o[1] <= Yres /\ o[2] <= Xres
                    => corrected[o] = averaged_cell(o[1], o[2])
              /\ o[1] > Yres \/ o[2] > Xres
                    => corrected[o] = nearest_cell(o[1], o[2])
        /\ Nrows = Yres /\ Ncols = Xres
              => \A o \in DOMAIN corrected : corrected[o] = averaged_cell(o[1], o[2])

\* the parts of C29 that hold: the cells inside the truncated size, the
\* array of the truncated size, and the corner of trailing rows and columns
C29_InsidePart ==
    Aligned29 =>
        /\ \A o \in DOMAIN corrected :
              /\ o[1] <= Yres /\ o[2] <= Xres
                    => corrected[o] = averaged_cell(o[1], o[2])
              /\ o[1] > Yres /\ o[2] > Xres
                    => corrected[o] = nearest_cell(o[1], o[2])
        /\ Nrows = Yres /\ Ncols = Xres
              => \A o \in DOMAIN corrected : corrected[o] = averaged_cell(o[1], o[2])

\* with the whole raster inside the extent and one axis only exceeding its
\* truncated size, the trailing row or column is replaced
C29_OneAxisPart ==
    Aligned29 /\ window = src_shape /\ (Nrows = Yres \/ Ncols = Xres) =>
        \A o \in DOMAIN corrected :
            o[1] > Yres \/ o[2] > Xres => corrected[o] = nearest_cell(o[1], o[2])

\* a trailing row and a trailing column together: only their corner is replaced
C29_CornerOnly ==
    /\ Aligned29 /\ window = src_shape /\ src_shape = <<3, 3>> /\ xlooks = 2
    /\ corrected[<<2, 2>>] = nearest_cell(2, 2)
    /\ corrected[<<2, 1>>] = averaged_cell(2, 1)
    /\ corrected[<<1, 2>>] = averaged_cell(1, 2)

\* ---- C30
\* the stages of the raster over the calls so far, the one just written last
StageSeq ==
    [k \in 1..Len(history) |-> history[k].from] \o <<tag>>
        \o (IF out_tag # "" THEN <<out_tag>> ELSE <<>>)

Kind(t) == IF t \in {ORIG, MULTILOOKED, COHERENCE} THEN "ifg"
           ELSE IF t \in {DEM, MLOOKED_DEM} THEN "dem" ELSE "inc"

NeverBackToOrigin ==
    \A i, m, j \in DOMAIN StageSeq :
        (i < m /\ m < j /\ StageSeq[i] \in {ORIG, DEM, INCIDENCE}
            /\ StageSeq[m] # StageSeq[i]) => StageSeq[j] # StageSeq[i]

CoherenceStays ==
    \A i, j \in DOMAIN StageSeq :
        (i < j /\ StageSeq[i] = COHERENCE) => StageSeq[j] # MULTILOOKED

KindStays ==
    \A i, j \in DOMAIN StageSeq :
        (i < j /\ StageSeq[i] \in Stages /\ StageSeq[j] \in Stages)
            => Kind(StageSeq[i]) = Kind(StageSeq[j])

\* C30: over a sequence of prepare calls on one raster, with any coherence
\* flags, the stage never returns to Orig, Dem or Incidence once it has left
\* it, a Coherence raster never becomes Multilooked again, and the kind of
\* the stage (interferogram, DEM, incidence) never changes.
C30_Monotone == NeverBackToOrigin /\ CoherenceStays /\ KindStays

\* the first part of C30: it holds
C30_OriginPart == NeverBackToOrigin

\* C30 when no call takes the bypass of prepare_ifg
C30_WarpedPart ==
    (do_multilook \/ crop_opt # ALREADY_SAME_SIZE) => C30_Monotone

\* a DEM has been turned into an interferogram by the bypass
C30_DemToIfg ==
    /\ tag = DEM /\ out_tag = MULTILOOKED /\ pc = "done"

====
